---- MODULE Spec2Model ----
(***************************************************************************)
(* Model of src/src/app.ts: the ProjectState registry (addProject,         *)
(* moveProject, updateListeners), the two ProjectList listings (listener   *)
(* closure and drag-target handlers), the ProjectItem drag source and the  *)
(* ProjectInput form.                                                      *)
(*                                                                         *)
(* Project objects live on the heap and are only ever pushed to            *)
(* this.projects, never removed or reordered, so the identity of a Project *)
(* object is its index in `projects`.  Arrays that hold references to      *)
(* Project objects (the snapshot given to a listener, assignedProjects)    *)
(* are sequences of such indices.                                          *)
(*                                                                         *)
(* Texts typed into the form are sequences of one-character strings; ids   *)
(* and drag payload data are strings.                                      *)
(***************************************************************************)
EXTENDS Integers, Sequences, FiniteSets, TLC

\* ---------------------------------------------------------------- bounds
MaxProjects == 2
NumIds == 2

\* -------------------------------------------------------- ProjectStatus
Active == "active"
Finished == "finished"
ProjectStatus == {Active, Finished}

\* Values Math.random().toString() can return; nothing in addProject
\* prevents two calls from returning the same one.
MathRandomStrings == <<"0.1", "0.2", "0.3", "0.4">>
Ids == {MathRandomStrings[i] : i \in 1..NumIds}

\* ----------------------------------------------------------- form texts
TitleTexts == {<<>>, <<"t">>}
DescriptionTexts == {<<"d", "e", "s", "c", "r">>}
PeopleTexts == {<<"2">>, <<"6">>}
EmptyInputs == [title |-> <<>>, description |-> <<>>, people |-> <<>>]

\* ------------------------------------------------------------ validate
Digits == <<"0", "1", "2", "3", "4", "5", "6", "7", "8", "9">>
IsDigit(c) == \E d \in 1..10 : Digits[d] = c
DigitValue(c) == (CHOOSE d \in 1..10 : Digits[d] = c) - 1

RECURSIVE trimStart(_)
trimStart(s) == IF s # <<>> /\ Head(s) = " " THEN trimStart(Tail(s)) ELSE s

RECURSIVE trimEnd(_)
trimEnd(s) ==
  IF s # <<>> /\ s[Len(s)] = " " THEN trimEnd(SubSeq(s, 1, Len(s) - 1)) ELSE s

trim(s) == trimEnd(trimStart(s))

RECURSIVE DecimalValue(_)
DecimalValue(s) ==
  IF s = <<>> THEN 0
  ELSE 10 * DecimalValue(SubSeq(s, 1, Len(s) - 1)) + DigitValue(s[Len(s)])

\* The unary plus of `+enteredPeople`: blank text is 0, a run of digits is
\* its value, anything else is NaN.
ToNumber(s) ==
  LET t == trim(s)
  IN IF \A i \in 1..Len(t) : IsDigit(t[i])
       THEN [type |-> "number", nan |-> FALSE, num |-> DecimalValue(t), chars |-> <<>>]
       ELSE [type |-> "number", nan |-> TRUE, num |-> 0, chars |-> <<>>]

StringValue(s) == [type |-> "string", nan |-> FALSE, num |-> 0, chars |-> s]

\* value.toString(): a number prints as at least one character ("NaN", "0").
toStringLength(value) ==
  IF value.type = "string" THEN Len(trim(value.chars))
  ELSE IF value.nan THEN 3
  ELSE IF value.num < 10 THEN 1 ELSE 2

\* Variant: the lower bound is exclusive.
validate_exclusiveMin(validatableInput) ==
  LET v == validatableInput
      has(f) == f \in DOMAIN v
      s1 == IF has("required") /\ v.required
              THEN toStringLength(v.value) # 0 ELSE TRUE
      s2 == IF has("minLength") /\ v.value.type = "string"
              THEN s1 /\ Len(v.value.chars) >= v.minLength ELSE s1
      s3 == IF has("maxLength") /\ v.value.type = "string"
              THEN s2 /\ Len(v.value.chars) <= v.maxLength ELSE s2
      s4 == IF has("min") /\ v.value.type = "number"
              THEN s3 /\ ~v.value.nan /\ v.value.num > v.min ELSE s3
      s5 == IF has("max") /\ v.value.type = "number"
              THEN s4 /\ ~v.value.nan /\ v.value.num <= v.max ELSE s4
  IN s5

\* A Validatable is a record with a `value` field and any of the optional
\* fields; an absent optional field is absent from the record's domain.
validate(validatableInput) ==
  LET v == validatableInput
      has(f) == f \in DOMAIN v
      s1 == IF has("required") /\ v.required
              THEN toStringLength(v.value) # 0 ELSE TRUE
      s2 == IF has("minLength") /\ v.value.type = "string"
              THEN s1 /\ Len(v.value.chars) >= v.minLength ELSE s1
      s3 == IF has("maxLength") /\ v.value.type = "string"
              THEN s2 /\ Len(v.value.chars) <= v.maxLength ELSE s2
      s4 == IF has("min") /\ v.value.type = "number"
              THEN s3 /\ ~v.value.nan /\ v.value.num >= v.min ELSE s3
      s5 == IF has("max") /\ v.value.type = "number"
              THEN s4 /\ ~v.value.nan /\ v.value.num <= v.max ELSE s4
  IN s5

\* TRUE when gatherUserInput returns the tuple, FALSE when it alerts and
\* returns nothing.
gatherUserInput(enteredTitle, enteredDescription, enteredPeople) ==
  LET titleValidatable == [value |-> StringValue(enteredTitle), required |-> TRUE]
      descriptionValidatable ==
        [value |-> StringValue(enteredDescription), required |-> TRUE, minLength |-> 5]
      peopleValidatable ==
        [value |-> ToNumber(enteredPeople), required |-> TRUE, min |-> 1, max |-> 5]
  IN ~(\/ ~validate(titleValidatable)
       \/ ~validate(descriptionValidatable)
       \/ ~validate(peopleValidatable))

\* ------------------------------------------------------------- Project
\* Variant: the constructor sets the other status.
Project_finished(id, title, description, people) ==
  [id |-> id, title |-> title, description |-> description,
   people |-> people, status |-> Finished]

Project(id, title, description, people) ==
  [id |-> id, title |-> title, description |-> description,
   people |-> people, status |-> Active]

\* ---------------------------------------------------- ProjectItem.persons
\* `${n}` for the numbers a project can hold.
numberToString(n) ==
  IF n < 10 THEN <<Digits[n + 1]>>
  ELSE <<Digits[(n \div 10) + 1], Digits[(n % 10) + 1]>>

\* Variant: the comparison lets 1 through.
persons_fromOne(n) ==
  IF n >= 1
    THEN numberToString(n) \o <<" ", "p", "e", "r", "s", "o", "n", "s">>
    ELSE <<"1", " ", "p", "e", "r", "s", "o", "n">>

\* The getter ProjectItem.persons, for a project with people = n.
persons(n) ==
  IF n > 1
    THEN numberToString(n) \o <<" ", "p", "e", "r", "s", "o", "n", "s">>
    ELSE <<"1", " ", "p", "e", "r", "s", "o", "n">>

\* --------------------------------------------------------------- state
VARIABLES
  projects,          \* ProjectState.projects: the Project objects, in push order
  listeners,         \* State.listeners: the registered closures, each named by
                     \* the `type` of the ProjectList that registered it
  assignedProjects,  \* ProjectList.assignedProjects of each constructed list:
                     \* references (indices into projects)
  droppable,         \* whether each list's <ul> carries the class 'droppable'
  drag,              \* the platform's drag session and its DataTransfer
  inputs,            \* the values of the three form fields
  script,            \* how many of the statements of lines 357-358 have run
  last               \* what the handler that ran last did (observation only)

vars == <<projects, listeners, assignedProjects, droppable, drag, inputs, script, last>>

\* ----------------------------------------------------- the registry
\* The part of the state the registry and its listeners work on, together
\* with the record of the calls made while one handler runs and the number
\* of array objects the handler has created with a spread so far.
World ==
  [projects |-> projects, listeners |-> listeners,
   assignedProjects |-> assignedProjects, allocated |-> 0,
   addCalls |-> <<>>, moveCalls |-> <<>>, notified |-> <<>>, threw |-> FALSE]

\* The identity of the array object this.projects; the arrays a handler
\* creates are numbered from 1.
ProjectsArray == 0

addListener(W, fn) == [W EXCEPT !.listeners = Append(@, fn)]

\* [...this.projects]: a new array holding references to the same objects.
spread(projs) == [i \in 1..Len(projs) |-> i]

\* What an array of references shows to whoever reads it now.
Deref(projs, refs) == [k \in 1..Len(refs) |-> projs[refs[k]]]

\* Variant: the filter's test is inverted.
filter_inverted(projs, refs, type) ==
  SelectSeq(refs, LAMBDA r : projs[r].status # type)

\* projects.filter(prj => prj.status === this.type)
filter(projs, refs, type) == SelectSeq(refs, LAMBDA r : projs[r].status = type)

\* Variant: the filtered projects are added to the list's earlier ones.
listener_appends(W, type, snapshot) ==
  [W EXCEPT !.assignedProjects[type] = @ \o filter(W.projects, snapshot, type)]

\* The closure ProjectList.configure registers, for the list of status `type`.
listener(W, type, snapshot) ==
  [W EXCEPT !.assignedProjects[type] = filter(W.projects, snapshot, type)]

\* Variant: the listeners are called from the last registered to the first.
RECURSIVE forEachListener_reversed(_, _)
forEachListener_reversed(W, k) ==
  IF k > Len(W.listeners) THEN W
  ELSE LET snapshot == spread(W.projects)
           which == Len(W.listeners) + 1 - k
           array == W.allocated + 1
           called == [W EXCEPT !.allocated = array,
                               !.notified =
                                 Append(@, [listener |-> which, array |-> array,
                                            snapshot |-> Deref(W.projects, snapshot)])]
       IN forEachListener_reversed(listener(called, W.listeners[which], snapshot), k + 1)

\* Variant: the copy is made once, before the loop, and handed to every
\* listener.
RECURSIVE forEachListener_oneCopy(_, _)
forEachListener_oneCopy(W, k) ==
  IF k > Len(W.listeners) THEN W
  ELSE LET snapshot == spread(W.projects)
           array == 1
           called == [W EXCEPT !.allocated = array,
                               !.notified =
                                 Append(@, [listener |-> k, array |-> array,
                                            snapshot |-> Deref(W.projects, snapshot)])]
       IN forEachListener_oneCopy(listener(called, W.listeners[k], snapshot), k + 1)

\* listeners.forEach: for each listener in turn, the spread creates a new
\* array object and the listener is called with it and runs to its end.
RECURSIVE forEachListener(_, _)
forEachListener(W, k) ==
  IF k > Len(W.listeners) THEN W
  ELSE LET snapshot == spread(W.projects)
           array == W.allocated + 1
           called == [W EXCEPT !.allocated = array,
                               !.notified =
                                 Append(@, [listener |-> k, array |-> array,
                                            snapshot |-> Deref(W.projects, snapshot)])]
       IN forEachListener(listener(called, W.listeners[k], snapshot), k + 1)

updateListeners(W) == forEachListener(W, 1)

addProject(W, random, title, description, people) ==
  LET project == Project(random, title, description, people)
      called == [W EXCEPT !.addCalls = Append(@, <<title, description, people>>)]
  IN updateListeners([called EXCEPT !.projects = Append(@, project)])

\* Array.prototype.find: the first element with that id; 0 stands for
\* undefined.
find(projs, projectId) ==
  IF \E i \in 1..Len(projs) : projs[i].id = projectId
    THEN CHOOSE i \in 1..Len(projs) :
           /\ projs[i].id = projectId
           /\ \A j \in 1..(i - 1) : projs[j].id # projectId
    ELSE 0

\* Variant: the listeners are told before the status is written.
moveProject_notifyFirst(W, projectId, newStatus) ==
  LET found == find(W.projects, projectId)
      called == [W EXCEPT !.moveCalls = Append(@, <<projectId, newStatus>>)]
  IN IF found = 0
       THEN [called EXCEPT !.threw = TRUE]
       ELSE [updateListeners(called) EXCEPT !.projects[found].status = newStatus]

\* Variant: a missing project is skipped and the listeners are told anyway.
moveProject_notifyOnMiss(W, projectId, newStatus) ==
  LET found == find(W.projects, projectId)
      called == [W EXCEPT !.moveCalls = Append(@, <<projectId, newStatus>>)]
  IN IF found = 0
       THEN updateListeners(called)
       ELSE updateListeners([called EXCEPT !.projects[found].status = newStatus])

\* Variant: the listeners are told only when the status really changes.
moveProject_skipUnchanged(W, projectId, newStatus) ==
  LET found == find(W.projects, projectId)
      called == [W EXCEPT !.moveCalls = Append(@, <<projectId, newStatus>>)]
  IN IF found = 0
       THEN [called EXCEPT !.threw = TRUE]
       ELSE IF W.projects[found].status = newStatus
         THEN called
         ELSE updateListeners([called EXCEPT !.projects[found].status = newStatus])

\* Variant: the project found is taken out and pushed at the end.
moveProject_reorders(W, projectId, newStatus) ==
  LET found == find(W.projects, projectId)
      called == [W EXCEPT !.moveCalls = Append(@, <<projectId, newStatus>>)]
      n == Len(W.projects)
  IN IF found = 0
       THEN [called EXCEPT !.threw = TRUE]
       ELSE updateListeners(
              [called EXCEPT !.projects =
                 Append(SubSeq(@, 1, found - 1) \o SubSeq(@, found + 1, n),
                        [@[found] EXCEPT !.status = newStatus])])

\* `found.status = newStatus` on undefined throws a TypeError: nothing has
\* been written and updateListeners is not reached.
moveProject(W, projectId, newStatus) ==
  LET found == find(W.projects, projectId)
      called == [W EXCEPT !.moveCalls = Append(@, <<projectId, newStatus>>)]
  IN IF found = 0
       THEN [called EXCEPT !.threw = TRUE]
       ELSE updateListeners([called EXCEPT !.projects[found].status = newStatus])

\* -------------------------------------------------------- DataTransfer
\* event.dataTransfer: absent (null), or the list of (format, data) items of
\* the drag data store.
TextPlain == "text/plain"
NoTransfer == [present |-> FALSE, items |-> <<>>]
Transfer(items) == [present |-> TRUE, items |-> items]
Item(format, data) == [format |-> format, data |-> data]

\* dataTransfer.types[0]; "" stands for undefined.
firstType(dt) == IF dt.items = <<>> THEN "" ELSE dt.items[1].format

hasType(dt, format) == \E i \in 1..Len(dt.items) : dt.items[i].format = format

\* Variant: the format is not looked at.
getData_anyFormat(dt, format) ==
  IF dt.items = <<>> THEN "" ELSE dt.items[1].data

\* dataTransfer.getData(format): the data of that format, or the empty string.
getData(dt, format) ==
  IF hasType(dt, format)
    THEN dt.items[CHOOSE i \in 1..Len(dt.items) : dt.items[i].format = format].data
    ELSE ""

\* dataTransfer.setData(format, data) on the empty store of a dragstart.
setData(dt, format, data) == Transfer(<<Item(format, data)>>)

\* Payloads of drags that start outside the page, or of events built by hand.
ForeignTransfers ==
  { NoTransfer,
    Transfer(<<Item("application/json", MathRandomStrings[1])>>),
    Transfer(<<Item(TextPlain, "")>>),
    Transfer(<<Item(TextPlain, "hello")>>),
    Transfer(<<Item("text/uri-list", "http://x"), Item(TextPlain, "http://x")>>) }

\* The drag session: whether a drag is in progress, its DataTransfer, and the
\* lists whose dragover handler called preventDefault() since the drag
\* started or since their last dragleave.
NoDrag == [active |-> FALSE, dataTransfer |-> NoTransfer, accepted |-> {}]
Dragging(dt) == [active |-> TRUE, dataTransfer |-> dt, accepted |-> {}]

\* ------------------------------------------------------- observations
\* What a handler did: the event it got (its name, the list it was
\* delivered to, its DataTransfer, whether that list had accepted the drag),
\* whether it called preventDefault(), the registry calls it made, the
\* listener invocations with the snapshot each one saw, and whether it threw.
Observed(op, target, W, prevented) ==
  [op |-> op, target |-> target, prevented |-> prevented,
   transfer |-> NoTransfer, accepted |-> FALSE,
   addCalls |-> W.addCalls, moveCalls |-> W.moveCalls,
   notified |-> W.notified, threw |-> W.threw]

\* The ProjectItem rows on the page: one per assigned project of each list.
Rows ==
  {r \in 1..Len(projects) :
     \E t \in DOMAIN assignedProjects :
       \E k \in 1..Len(assignedProjects[t]) : assignedProjects[t][k] = r}

\* ------------------------------------------------ the top-level script
Quiet(op, target) ==
  [op |-> op, target |-> target, prevented |-> FALSE,
   transfer |-> NoTransfer, accepted |-> FALSE,
   addCalls |-> <<>>, moveCalls |-> <<>>, notified |-> <<>>, threw |-> FALSE]

Init ==
  /\ projects = <<>>
  /\ listeners = <<>>
  /\ assignedProjects = [t \in {} |-> <<>>]
  /\ droppable = [t \in {} |-> FALSE]
  /\ drag = NoDrag
  /\ inputs = EmptyInputs
  /\ script = 0
  /\ last = Quiet("getInstance", "none")

\* const prjInput = new ProjectInput(): registers submitHandler.
NewProjectInput ==
  /\ script = 0
  /\ script' = 1
  /\ last' = Quiet("new ProjectInput", "none")
  /\ UNCHANGED <<projects, listeners, assignedProjects, droppable, drag, inputs>>

\* new ProjectList(type): assignedProjects = [], then configure() registers
\* the listener and the three drag handlers.
NewProjectList(type) ==
  /\ script = (IF type = Active THEN 1 ELSE 2)
  /\ script' = script + 1
  /\ assignedProjects' = [t \in DOMAIN assignedProjects \cup {type} |->
                            IF t = type THEN <<>> ELSE assignedProjects[t]]
  /\ droppable' = [t \in DOMAIN droppable \cup {type} |->
                     IF t = type THEN FALSE ELSE droppable[t]]
  /\ listeners' = addListener(World, type).listeners
  /\ last' = Quiet("new ProjectList", type)
  /\ UNCHANGED <<projects, drag, inputs>>

\* The script has run to its end: the page now reacts to events.
Loaded == script = 3

\* ------------------------------------------------------- ProjectInput
\* submitHandler with the three fields holding the given texts and
\* Math.random() returning `random`.
submit(enteredTitle, enteredDescription, enteredPeople, random) ==
  LET userInput == gatherUserInput(enteredTitle, enteredDescription, enteredPeople)
      W == IF userInput
             THEN addProject(World, random, enteredTitle, enteredDescription,
                             ToNumber(enteredPeople).num)
             ELSE World
  IN /\ userInput => Len(projects) < MaxProjects
     /\ projects' = W.projects
     /\ assignedProjects' = W.assignedProjects
     /\ inputs' = IF userInput THEN EmptyInputs
                  ELSE [title |-> enteredTitle,
                        description |-> enteredDescription,
                        people |-> enteredPeople]
     /\ last' = Observed("submit", "none", W, TRUE)
     /\ UNCHANGED <<listeners, droppable, drag, script>>

\* The user fills the three fields and submits the form.
submitHandler ==
  /\ Loaded
  /\ \E enteredTitle \in TitleTexts, enteredDescription \in DescriptionTexts,
        enteredPeople \in PeopleTexts, random \in Ids :
       submit(enteredTitle, enteredDescription, enteredPeople, random)

\* The same handler with a wider choice of texts in the fields.
FormTitleTexts == {<<>>, <<" ">>, <<"t">>}
FormDescriptionTexts ==
  { <<>>, <<"d", "e", "s", "c">>, <<"d", "e", "s", "c", "r">>,
    <<" ", " ", " ", " ", " ">>, <<" ", "d", "e", "s", "c">> }
FormPeopleTexts == {<<>>, <<"0">>, <<"1">>, <<"5">>, <<"6">>, <<"x">>, <<"1", "0">>}

submitHandlerForm ==
  /\ Loaded
  /\ \E enteredTitle \in FormTitleTexts, enteredDescription \in FormDescriptionTexts,
        enteredPeople \in FormPeopleTexts :
       submit(enteredTitle, enteredDescription, enteredPeople, MathRandomStrings[1])

\* -------------------------------------------------------- ProjectItem
\* The user starts dragging the row of project object r.
dragStartHandler(r) ==
  /\ Loaded
  /\ ~drag.active
  /\ r \in Rows
  /\ drag' = Dragging(setData(Transfer(<<>>), TextPlain, projects[r].id))
  /\ last' = Quiet("dragstart", "none")
  /\ UNCHANGED <<projects, listeners, assignedProjects, droppable, inputs, script>>

\* A drag that did not start on a row enters the page.
ForeignDragEnter(dt) ==
  /\ Loaded
  /\ ~drag.active
  /\ drag' = Dragging(dt)
  /\ last' = Quiet("dragenter", "none")
  /\ UNCHANGED <<projects, listeners, assignedProjects, droppable, inputs, script>>

\* The drag ends without a drop; the handler's body is empty.
dragEndHandler ==
  /\ Loaded
  /\ drag.active
  /\ drag' = NoDrag
  /\ last' = Quiet("dragend", "none")
  /\ UNCHANGED <<projects, listeners, assignedProjects, droppable, inputs, script>>

\* -------------------------------------------------------- ProjectList
dragOverHandler(type) ==
  /\ Loaded
  /\ drag.active
  /\ LET dt == drag.dataTransfer
         accepts == dt.present /\ firstType(dt) = TextPlain
     IN /\ droppable' = IF accepts THEN [droppable EXCEPT ![type] = TRUE]
                        ELSE droppable
        /\ drag' = IF accepts THEN [drag EXCEPT !.accepted = @ \cup {type}]
                   ELSE drag
        /\ last' = [Quiet("dragover", type) EXCEPT !.prevented = accepts,
                                                   !.transfer = dt]
  /\ UNCHANGED <<projects, listeners, assignedProjects, inputs, script>>

\* Variant: the class 'droppable' is left on the list.
dragLeaveHandler_keepsClass(type) ==
  /\ Loaded
  /\ drag.active
  /\ drag' = [drag EXCEPT !.accepted = @ \ {type}]
  /\ last' = Quiet("dragleave", type)
  /\ UNCHANGED <<projects, listeners, assignedProjects, droppable, inputs, script>>

dragLeaveHandler(type) ==
  /\ Loaded
  /\ drag.active
  /\ droppable' = [droppable EXCEPT ![type] = FALSE]
  /\ drag' = [drag EXCEPT !.accepted = @ \ {type}]
  /\ last' = Quiet("dragleave", type)
  /\ UNCHANGED <<projects, listeners, assignedProjects, inputs, script>>

\* Variant: the project is always moved to the first status.
dropEffect_alwaysActive(W, type, dt, wasDroppable) ==
  IF dt.present /\ getData(dt, TextPlain) # ""
    THEN LET id == getData(dt, TextPlain)
             moved == moveProject(W, id, Active)
         IN [world |-> moved,
             droppable |-> IF moved.threw THEN wasDroppable ELSE FALSE]
    ELSE [world |-> W, droppable |-> wasDroppable]

\* What dropHandler does to the registry and to the list's <ul>: the world
\* after it and whether the class 'droppable' is still set.  When
\* moveProject throws, the statement after it does not run.
dropEffect(W, type, dt, wasDroppable) ==
  IF dt.present /\ getData(dt, TextPlain) # ""
    THEN LET id == getData(dt, TextPlain)
             moved == moveProject(W, id, IF type = Active THEN Active ELSE Finished)
         IN [world |-> moved,
             droppable |-> IF moved.threw THEN wasDroppable ELSE FALSE]
    ELSE [world |-> W, droppable |-> wasDroppable]

\* A drop event is delivered to the list of status `type`; the drag session
\* ends with it (the dragend that follows runs an empty handler).
dropHandler(type) ==
  /\ Loaded
  /\ drag.active
  /\ LET effect == dropEffect(World, type, drag.dataTransfer, droppable[type])
     IN /\ projects' = effect.world.projects
        /\ assignedProjects' = effect.world.assignedProjects
        /\ droppable' = [droppable EXCEPT ![type] = effect.droppable]
        /\ last' = [Observed("drop", type, effect.world, FALSE)
                      EXCEPT !.transfer = drag.dataTransfer,
                             !.accepted = (type \in drag.accepted)]
  /\ drag' = NoDrag
  /\ UNCHANGED <<listeners, inputs, script>>

\* ---------------------------------------------------------------- Next
Next ==
  \/ NewProjectInput
  \/ \E type \in ProjectStatus : NewProjectList(type)
  \/ submitHandler
  \/ \E r \in 1..MaxProjects : dragStartHandler(r)
  \/ \E dt \in ForeignTransfers : ForeignDragEnter(dt)
  \/ dragEndHandler
  \/ \E type \in ProjectStatus : dragOverHandler(type)
  \/ \E type \in ProjectStatus : dragLeaveHandler(type)
  \/ \E type \in ProjectStatus : dropHandler(type)

Spec == Init /\ [][Next]_vars

\* The page with only the form in use.
FormNext ==
  \/ NewProjectInput
  \/ \E type \in ProjectStatus : NewProjectList(type)
  \/ submitHandlerForm

FormSpec == Init /\ [][FormNext]_vars

\* ======================================================== properties
Range(f) == {f[k] : k \in DOMAIN f}

\* The handler that ran last called addProject / moveProject.
Added == last.addCalls # <<>>
Moved == last.moveCalls # <<>> /\ ~last.threw

\* C1: when an add or a successful move has returned, every subscribed
\* listener has been invoked exactly once by it, and every snapshot handed
\* out equals the registry's sequence as it is after the mutation.
NotificationCompleteness ==
  (Added \/ Moved) =>
    /\ \A k \in 1..Len(listeners) :
         Cardinality({i \in 1..Len(last.notified) : last.notified[i].listener = k}) = 1
    /\ \A i \in 1..Len(last.notified) :
         /\ last.notified[i].listener \in 1..Len(listeners)
         /\ last.notified[i].snapshot = projects

\* A drop has moved the second of two projects to Finished and both
\* listeners were told.
NotificationCompletenessWitness ==
  /\ last.op = "drop"
  /\ Moved
  /\ Len(last.notified) = 2
  /\ Len(projects) = 2
  /\ projects[1].status = Active
  /\ projects[2].status = Finished

\* C2: add(title, description, people) appends exactly one project at the
\* end, with status Active and the given fields, leaving the others as they
\* were; afterwards the Active list holds it and the Finished list does not.
AddAppendsActive ==
  [][ last'.addCalls # <<>> =>
        LET n == Len(projects)
            args == last'.addCalls[1]
        IN /\ Len(last'.addCalls) = 1
           /\ Len(projects') = n + 1
           /\ SubSeq(projects', 1, n) = projects
           /\ projects'[n + 1].title = args[1]
           /\ projects'[n + 1].description = args[2]
           /\ projects'[n + 1].people = args[3]
           /\ projects'[n + 1].status = Active
           /\ (n + 1) \in Range(assignedProjects'[Active])
           /\ (n + 1) \notin Range(assignedProjects'[Finished]) ]_vars

\* A second project, for two people, has just been added while the first
\* one is Finished.
AddAppendsActiveWitness ==
  /\ Added
  /\ Len(projects) = 2
  /\ projects[1].status = Finished
  /\ projects[2].people = 2
  /\ assignedProjects[Active] = <<2>>

\* The id and the status a drop handed to moveProject.
MovedId == last.moveCalls[1][1]
MovedTo == last.moveCalls[1][2]
Other(status) == IF status = Active THEN Finished ELSE Active

\* C3: when a project with id X has one status and move(X, the other
\* status) returns, that project has the other status, is absent from the
\* list of its old status and present in the list of its new one.
MoveChangesListing ==
  [][ \A r \in 1..Len(projects) :
        ( /\ last'.moveCalls # <<>>
          /\ ~last'.threw
          /\ last'.moveCalls[1][1] = projects[r].id
          /\ last'.moveCalls[1][2] = Other(projects[r].status) )
        => /\ projects'[r].status = Other(projects[r].status)
           /\ r \notin Range(assignedProjects'[projects[r].status])
           /\ r \in Range(assignedProjects'[Other(projects[r].status)]) ]_vars

\* C4: a move with an id that no project has leaves the registry's sequence,
\* every status and every list as they were, and invokes no listener.
MoveUnknownIdChangesNothing ==
  [][ ( /\ last'.moveCalls # <<>>
        /\ \A r \in 1..Len(projects) : projects[r].id # last'.moveCalls[1][1] )
      => /\ projects' = projects
         /\ assignedProjects' = assignedProjects
         /\ last'.notified = <<>> ]_vars

\* A drop carrying a text that is no project's id has reached moveProject
\* while the registry holds a project in each list.
MoveUnknownIdWitness ==
  /\ last.op = "drop"
  /\ last.moveCalls # <<>>
  /\ last.threw
  /\ \A r \in 1..Len(projects) : projects[r].id # MovedId
  /\ Len(assignedProjects[Active]) = 1
  /\ Len(assignedProjects[Finished]) = 1

\* C5: a move with an id that no project has completes without an unchecked
\* error, also when a drop handler issued it.
MoveUnknownIdDoesNotThrow ==
  (last.moveCalls # <<>> /\ \A r \in 1..Len(projects) : projects[r].id # MovedId)
    => ~last.threw

\* C6: no two projects of the registry share an id.
UniqueIds ==
  \A i, j \in 1..Len(projects) : i # j => projects[i].id # projects[j].id

\* C7: for every snapshot delivered to a list, the list's stored
\* assignedProjects is exactly the snapshot's entries with the list's status,
\* in the snapshot's order, none added, dropped or duplicated.
FilterCorrectness ==
  \A i \in 1..Len(last.notified) :
    LET type == listeners[last.notified[i].listener]
        snapshot == last.notified[i].snapshot
        stored == assignedProjects[type]
    IN /\ \A k \in 1..Len(stored) :
            /\ stored[k] \in 1..Len(snapshot)
            /\ snapshot[stored[k]].status = type
       /\ \A r \in 1..Len(snapshot) :
            snapshot[r].status = type => \E k \in 1..Len(stored) : stored[k] = r
       /\ \A k1, k2 \in 1..Len(stored) : k1 < k2 => stored[k1] < stored[k2]

\* Both listeners have just been given a snapshot with an Active and a
\* Finished project, the Finished one first.
FilterCorrectnessWitness ==
  /\ Len(last.notified) = 2
  /\ Len(projects) = 2
  /\ projects[1].status = Finished
  /\ projects[2].status = Active
  /\ assignedProjects[Finished] = <<1>>

\* C8: a drop on a list that accepted the drag, carrying the id of an
\* existing project, calls moveProject exactly once, with that id and the
\* list's own status; afterwards the list is no longer droppable and no drag
\* is in progress.
AcceptedDropMovesOnce ==
  [][ \A type \in ProjectStatus :
        ( /\ last'.op = "drop"
          /\ last'.target = type
          /\ type \in drag.accepted
          /\ \E r \in 1..Len(projects) :
               projects[r].id = drag.dataTransfer.items[1].data )
        => /\ last'.moveCalls = << <<drag.dataTransfer.items[1].data, type>> >>
           /\ ~last'.threw
           /\ ~droppable'[type]
           /\ ~drag'.active ]_vars

\* A drop on the Finished list, which had accepted the drag, has moved an
\* Active project there.
AcceptedDropWitness ==
  /\ last.op = "drop"
  /\ last.target = Finished
  /\ last.accepted
  /\ Moved
  /\ MovedTo = Finished
  /\ Len(projects) = 2
  /\ projects[2].id = MovedId
  /\ projects[2].status = Finished
  /\ projects[1].id # MovedId
  /\ ~droppable[Finished]

\* C9: a drop whose payload has no text/plain item (or no DataTransfer at
\* all) changes nothing in the registry, notifies nobody and raises no error.
ForeignDropIgnored ==
  [][ ( /\ last'.op = "drop"
        /\ \/ ~drag.dataTransfer.present
           \/ \A i \in 1..Len(drag.dataTransfer.items) :
                drag.dataTransfer.items[i].format # TextPlain )
      => /\ projects' = projects
         /\ assignedProjects' = assignedProjects
         /\ last'.moveCalls = <<>>
         /\ last'.notified = <<>>
         /\ ~last'.threw ]_vars

\* A drop of a payload of another format, whose data is the id of a project,
\* has been ignored.
ForeignDropWitness ==
  /\ last.op = "drop"
  /\ last.transfer = Transfer(<<Item("application/json", MathRandomStrings[1])>>)
  /\ last.moveCalls = <<>>
  /\ Len(projects) >= 1
  /\ projects[1].id = MathRandomStrings[1]
  /\ projects[1].status = Active
  /\ ~drag.active

\* C10: a drop delivered to a list that has not accepted the current drag
\* causes no moveProject call and no notification.
UnacceptedDropIgnored ==
  [][ \A type \in ProjectStatus :
        (last'.op = "drop" /\ last'.target = type /\ type \notin drag.accepted)
        => (last'.moveCalls = <<>> /\ last'.notified = <<>>) ]_vars

\* C11: on a dragover a list accepts (calls preventDefault and marks itself
\* droppable) exactly when the payload carries a text/plain item; for a
\* payload without one it does nothing; the registry is unchanged either way.
DragOverAcceptsTextPlain ==
  [][ \A type \in ProjectStatus :
        (last'.op = "dragover" /\ last'.target = type)
        => LET carries ==
                 /\ drag.dataTransfer.present
                 /\ \E i \in 1..Len(drag.dataTransfer.items) :
                      drag.dataTransfer.items[i].format = TextPlain
           IN /\ carries => (last'.prevented /\ droppable'[type])
              /\ ~carries => (~last'.prevented /\ droppable' = droppable)
              /\ projects' = projects
              /\ assignedProjects' = assignedProjects
              /\ last'.notified = <<>> ]_vars

\* The events of a drag other than the drop.
DragOnlyOps == {"dragstart", "dragenter", "dragover", "dragleave", "dragend"}

\* C12: drag start, drag over, drag leave and a drag end without a drop
\* leave the registry, every status and every list as they were and invoke
\* no listener; a dragleave clears the list's droppable mark and a drag end
\* leaves no drag in progress.
DragEventsKeepRegistry ==
  [][ last'.op \in DragOnlyOps
      => /\ projects' = projects
         /\ assignedProjects' = assignedProjects
         /\ last'.notified = <<>>
         /\ last'.addCalls = <<>>
         /\ last'.moveCalls = <<>>
         /\ last'.op = "dragleave" => ~droppable'[last'.target]
         /\ last'.op = "dragend" => ~drag'.active ]_vars

\* The row of an Active project is being dragged; it has just left the
\* Finished list, which is no longer droppable, while the Active list, also
\* passed over, still is.
DragEventsKeepRegistryWitness ==
  /\ last.op = "dragleave"
  /\ last.target = Finished
  /\ drag.active
  /\ drag.accepted = {Active}
  /\ droppable[Active]
  /\ ~droppable[Finished]
  /\ Len(projects) = 2
  /\ projects[1].status = Active
  /\ drag.dataTransfer = Transfer(<<Item(TextPlain, projects[1].id)>>)

\* C13: after move(id, s) has returned for an existing id, a second
\* move(id, s) right away leaves the registry and the lists exactly as the
\* first one left them, with a project of that id at status s; each of the
\* two calls invokes every listener once (twice in total).  The first call
\* may itself be a move to the status the project already had.
MoveIdempotence ==
  [][ (last'.moveCalls # <<>> /\ ~last'.threw)
      => LET id == last'.moveCalls[1][1]
             s == last'.moveCalls[1][2]
             once == [World' EXCEPT !.notified = last'.notified,
                                    !.moveCalls = last'.moveCalls]
             twice == moveProject(once, id, s)
         IN /\ ~twice.threw
            /\ twice.projects = projects'
            /\ twice.assignedProjects = assignedProjects'
            /\ \E r \in 1..Len(projects') :
                 projects'[r].id = id /\ projects'[r].status = s
            /\ Len(last'.notified) = Len(listeners)
            /\ Len(twice.moveCalls) = 2
            /\ \A k \in 1..Len(listeners) :
                 Cardinality({i \in 1..Len(twice.notified) :
                                twice.notified[i].listener = k}) = 2 ]_vars

\* A drop on the Active list has moved there a project that is Active, the
\* other project being Finished.
MoveIdempotenceWitness ==
  /\ last.op = "drop"
  /\ Moved
  /\ MovedTo = Active
  /\ Len(projects) = 2
  /\ projects[1].status = Finished
  /\ projects[2].status = Active
  /\ projects[2].id = MovedId
  /\ projects[1].id # MovedId

\* C14: a step changes a project's status only through a move with that
\* project's id, to the status asked for, and changes at most one project;
\* no step removes or reorders projects or changes an id, title, description
\* or people count; the sequence grows only by an add, at the end.
OnlyMoveChangesStatus ==
  [][ LET n == Len(projects)
          changed == {r \in 1..n : projects'[r].status # projects[r].status}
      IN /\ Len(projects') >= n
         /\ \A r \in 1..n :
              /\ projects'[r].id = projects[r].id
              /\ projects'[r].title = projects[r].title
              /\ projects'[r].description = projects[r].description
              /\ projects'[r].people = projects[r].people
         /\ Cardinality(changed) <= 1
         /\ \A r \in changed :
              /\ last'.moveCalls = << <<projects[r].id, projects'[r].status>> >>
              /\ ~last'.threw
         /\ last'.moveCalls # <<>> => Len(projects') = n
         /\ Len(projects') # n => (last'.addCalls # <<>> /\ Len(projects') = n + 1)
         /\ last'.addCalls # <<>> => changed = {} ]_vars

\* A drop has moved the first of two projects to Finished; the second one,
\* with another id, is still Active.
OnlyMoveChangesStatusWitness ==
  /\ last.op = "drop"
  /\ Moved
  /\ MovedTo = Finished
  /\ Len(projects) = 2
  /\ projects[1].id = MovedId
  /\ projects[1].status = Finished
  /\ projects[2].id # MovedId
  /\ projects[2].status = Active

\* C15: a list's listener is registered at the end of the listeners as the
\* list is constructed, and each add or successful move invokes the
\* listeners one after the other in that order, each exactly once.
ListenersInRegistrationOrder ==
  [][ /\ last'.op = "new ProjectList" => listeners' = Append(listeners, last'.target)
      /\ last'.op # "new ProjectList" => listeners' = listeners
      /\ (last'.addCalls # <<>> \/ (last'.moveCalls # <<>> /\ ~last'.threw))
         => /\ Len(last'.notified) = Len(listeners')
            /\ \A i \in 1..Len(last'.notified) : last'.notified[i].listener = i ]_vars

\* The Active list was constructed and registered first; an add has just
\* invoked its listener first and the Finished list's second.
ListenersInRegistrationOrderWitness ==
  /\ Added
  /\ listeners = <<Active, Finished>>
  /\ Len(last.notified) = 2
  /\ last.notified[1].listener = 1
  /\ last.notified[2].listener = 2
  /\ Len(projects) = 2

\* C19: every listener invocation is handed an array object of its own:
\* not the registry's array and not the array handed to another listener,
\* so that adding, removing or reordering entries of a received snapshot
\* touches neither the registry's sequence nor another listener's snapshot.
SnapshotIsolation ==
  /\ \A i \in 1..Len(last.notified) :
       /\ last.notified[i].array # ProjectsArray
       /\ last.notified[i].snapshot = projects
  /\ \A i, j \in 1..Len(last.notified) :
       i # j => last.notified[i].array # last.notified[j].array

\* A move has just handed two snapshots of two projects to the two
\* listeners.
SnapshotIsolationWitness ==
  /\ Moved
  /\ Len(last.notified) = 2
  /\ last.notified[1].array = 1
  /\ last.notified[2].array = 2
  /\ Len(projects) = 2
  /\ projects[2].status = Finished

\* C18: once both lists are constructed, between handlers every project
\* is held by exactly one list, the one of its current status, exactly once,
\* and the lists hold nothing but the registry's projects.
Partition ==
  Loaded =>
    /\ \A r \in 1..Len(projects) :
         /\ Cardinality({k \in 1..Len(assignedProjects[projects[r].status]) :
                           assignedProjects[projects[r].status][k] = r}) = 1
         /\ r \notin Range(assignedProjects[Other(projects[r].status)])
    /\ \A type \in ProjectStatus :
         Range(assignedProjects[type]) \subseteq 1..Len(projects)

\* After a move and a later add, the Finished list holds the first project
\* and the Active list the second.
PartitionWitness ==
  /\ Added
  /\ Len(projects) = 2
  /\ projects[1].status = Finished
  /\ projects[2].status = Active
  /\ assignedProjects[Finished] = <<1>>
  /\ assignedProjects[Active] = <<2>>
  /\ projects[1].id = projects[2].id

\* What the form asks of the three texts.
NotBlank(text) == \E i \in 1..Len(text) : text[i] # " "
TitleOk(text) == NotBlank(text)
DescriptionOk(text) == NotBlank(text) /\ Len(text) >= 5
PeopleOk(text) ==
  /\ NotBlank(text)
  /\ \A i \in 1..Len(text) : IsDigit(text[i])
  /\ DecimalValue(text) \in 1..5

\* C16: a form submission calls addProject exactly once when the title is
\* given, the description is given and at least 5 long and the people count
\* is given and between 1 and 5; otherwise it makes no registry call, the
\* registry and the lists stay as they were and no listener is invoked.
SubmitAddsIffValid ==
  [][ last'.op = "submit"
      => IF last'.addCalls # <<>>
           THEN /\ Len(last'.addCalls) = 1
                /\ TitleOk(last'.addCalls[1][1])
                /\ DescriptionOk(last'.addCalls[1][2])
                /\ last'.addCalls[1][3] \in 1..5
                /\ Len(projects') = Len(projects) + 1
           ELSE /\ ~( /\ TitleOk(inputs'.title)
                      /\ DescriptionOk(inputs'.description)
                      /\ PeopleOk(inputs'.people) )
                /\ projects' = projects
                /\ assignedProjects' = assignedProjects
                /\ last'.moveCalls = <<>>
                /\ last'.notified = <<>> ]_vars

\* A submission with a people count of 6 has been turned down after a
\* project for one person had been added.
SubmitAddsIffValidWitness ==
  /\ last.op = "submit"
  /\ last.addCalls = <<>>
  /\ inputs.title = <<"t">>
  /\ inputs.description = <<" ", "d", "e", "s", "c">>
  /\ inputs.people = <<"6">>
  /\ Len(projects) = 1
  /\ projects[1].people = 1

\* C17: the display value of a row is "1 person" when its project's people
\* count is 1 and "N persons", N being the count, otherwise.
PersonsDisplay ==
  \A r \in Rows :
    persons(projects[r].people) =
      IF projects[r].people = 1
        THEN <<"1", " ", "p", "e", "r", "s", "o", "n">>
        ELSE <<Digits[projects[r].people + 1]>>
               \o <<" ", "p", "e", "r", "s", "o", "n", "s">>

\* The page shows a row for one person and a row for five.
PersonsDisplayWitness ==
  /\ Rows = {1, 2}
  /\ projects[1].people = 1
  /\ projects[2].people = 5

\* C20: whenever no drag is in progress no list is marked droppable, and
\* every drop leaves the list it was delivered to unmarked.
NoDroppableWhenIdle ==
  /\ ~drag.active => \A type \in DOMAIN droppable : ~droppable[type]
  /\ last.op = "drop" => ~droppable[last.target]

====
